---- MODULE Spec2Model ----
(***************************************************************************)
(* The event-stream client of pkg/fab/events/consumer/consumer.go as a     *)
(* state machine.                                                          *)
(*                                                                         *)
(* One lifecycle caller ("L") issues Start and Stop one after the other;   *)
(* auxiliary callers issue RegisterAsync, UnregisterAsync, Unregister and  *)
(* Recv concurrently with it.  The goroutines the client spawns (the       *)
(* handshake readers of register/Unregister and the processEvents loop)    *)
(* are the entries of gor.  The gRPC connection, the stream and the        *)
(* adapter are the environment: every outcome they can produce is a        *)
(* nondeterministic choice of the step that calls them.  Durations are in   *)
(* milliseconds; a timer is a branch of the select that is always ready.   *)
(* A panic (nil dereference, close of a closed channel) ends the process:  *)
(* crashed records it and no step follows.                                 *)
(***************************************************************************)
EXTENDS Integers, Sequences, FiniteSets, TLC

\* ---- bounds of the model ------------------------------------------------
MaxStarts == 1          \* Start calls of the lifecycle caller
MaxStops == 2           \* Stop calls of the lifecycle caller
MaxAuxOps == 1          \* calls of each auxiliary caller
MaxRestarts == 2        \* Start calls of a lifecycle caller that is alone

\* ---- program constants (milliseconds) -----------------------------------
MinRegTimeout == 100
MaxRegTimeout == 60000
defaultTimeout == 3000

Lifecycle == "L"
AuxThreads == {"A"}
Threads == {Lifecycle} \cup AuxThreads

\* Kinds of an inbound ehpb.Event: its Event field is one of the oneof
\* wrappers, or nil.
MsgKinds == {"Register", "Unregister", "Block", "nil"}

\* Registration timeouts handed to the constructor.
TimeoutInputs ==
  {-1, 0, 1, 50, 99, 100, 101, 150, 3000, 30000, 59999, 60000, 60001, 60002, 120000}

VARIABLES
  ctorIn,                  \* the constructor's arguments
  constructed,             \* NewEventsClient has returned
  newErr,                  \* the error NewEventsClient returned
  regTimeout,              \* eventsClient.regTimeout
  identity,                \* eventsClient.identity: "nil" or "id"
  secured,                 \* eventsClient.secured
  allowInsecure,           \* eventsClient.allowInsecure
  stream,                  \* eventsClient.stream: 0 is nil, else an index of streams
  clientConn,              \* eventsClient.clientConn: 0 is nil, else an index of conns
  processEventsCompleted,  \* eventsClient.processEventsCompleted: 0 is nil, else an index of chans
  mu,                      \* eventsClient.RWMutex: "free" or the thread that holds it
  conns,                   \* every grpc.ClientConn dialed: "open" or "closed"
  streams,                 \* every stream opened by Chat
  chans,                   \* every completion channel made: "open" or "closed"
  th,                      \* the callers: position, locals and what the current call did
  gor,                     \* the goroutines spawned by the client
  budget,                  \* calls each caller may still issue
  crashed                  \* "none", or the panic that ended the process

vars == <<ctorIn, constructed, newErr, regTimeout, identity, secured, allowInsecure,
          stream, clientConn, processEventsCompleted, mu, conns, streams, chans,
          th, gor, budget, crashed>>

\* What the constructor sets and nothing changes afterwards.
config == <<ctorIn, constructed, newErr, regTimeout, identity, secured, allowInsecure>>

clientFields == <<config, stream, clientConn, processEventsCompleted, mu>>

\* ---- NewEventsClient ------------------------------------------------------

NewEventsClientNoClampAtBound(in) ==
  LET t == in.regTimeout
      lo == t <= MinRegTimeout
      hi == ~lo /\ t >= MaxRegTimeout
  IN [regTimeout |-> IF lo THEN MinRegTimeout ELSE IF hi THEN MaxRegTimeout ELSE t,
      err |-> IF lo THEN "ErrRegTimeoutLow" ELSE IF hi THEN "ErrRegTimeoutHigh" ELSE "nil",
      identity |-> in.identity,
      secured |-> in.attemptSecured,
      allowInsecure |-> in.allowInsecure]

\* The client NewEventsClient builds and the error it returns beside it.
NewEventsClient(in) ==
  LET t == in.regTimeout
      lo == t < MinRegTimeout
      hi == ~lo /\ t > MaxRegTimeout
  IN [regTimeout |-> IF lo THEN MinRegTimeout ELSE IF hi THEN MaxRegTimeout ELSE t,
      err |-> IF lo THEN "ErrRegTimeoutLow" ELSE IF hi THEN "ErrRegTimeoutHigh" ELSE "nil",
      identity |-> in.identity,
      secured |-> in.attemptSecured,
      allowInsecure |-> in.allowInsecure]

CtorInputs(ts) ==
  [regTimeout : ts, identity : {"nil", "id"}, attemptSecured : BOOLEAN,
   allowInsecure : BOOLEAN]

\* ---- records --------------------------------------------------------------

IdleThread ==
  [pc |-> "idle", op |-> "none", ret |-> "none",
   err |-> "nil",          \* the local err of register / Unregister
   regChan |-> "none",     \* the local regChan: "none", "open", "closed"
   secured |-> FALSE,      \* the parameter of establishConnectionAndRegister
   timeoutErr |-> "nil",   \* the local timeoutErr of Stop
   ws |-> 0,               \* the stream a Send or Recv in progress is on
   \* what the current call has done so far, kept until the caller's next call
   retries |-> 0,          \* re-invocations of establishConnectionAndRegister
   ies |-> "none",         \* the last answer of GetInterestedEvents
   via |-> "none",         \* the select case taken: "chan" or "timer"
   ack |-> "none",         \* what the handshake reader reported before the return
   opened |-> 0,           \* streams opened
   sent |-> 0,             \* envelopes written to the stream
   loops |-> 0,            \* processEvents goroutines started
   closeSends |-> 0,       \* CloseSend calls
   csErr |-> "nil",        \* what CloseSend returned
   connCloses |-> 0,       \* ClientConn.Close calls
   closeErr |-> "nil",     \* what ClientConn.Close returned
   prev |-> "none"]        \* what the caller's previous call returned

NewCall(op, pc) == [IdleThread EXCEPT !.pc = pc, !.op = op, !.ret = "pending"]

\* The call returns v: the locals are gone, the caller holds the value.
Return(r, v) ==
  [r EXCEPT !.pc = "idle", !.ret = v, !.err = "nil", !.regChan = "none",
            !.secured = FALSE, !.timeoutErr = "nil", !.ws = 0]

NewStream(c) == [conn |-> c, ended |-> "no"]

NewGor(kind, owner) ==
  [kind |-> kind, pc |-> "start", owner |-> owner,
   s |-> 0,              \* the stream of the Recv in progress
   cs |-> 0,             \* the stream of the deferred CloseSend
   c |-> 0,              \* the channel of the deferred close
   \* what the last receive of processEvents led to
   last |-> "none",      \* its outcome: "msg", "EOF" or the error
   fwd |-> FALSE,        \* adapter.Recv was called with it
   cont |-> FALSE,       \* the locals cont, err that adapter.Recv returned,
   aerr |-> "nil",       \* live until the test of cont
   disc |-> <<>>,        \* the arguments of the calls of adapter.Disconnected
   ret |-> "none"]       \* the value processEvents returns

DoneGor(g) == [NewGor(g.kind, "none") EXCEPT !.pc = "done"]

Crash(why) == crashed' = why

\* No step follows a panic.
Running == crashed = "none"

\* ---- initial states -------------------------------------------------------

Constructed(in) ==
  LET n == NewEventsClient(in)
  IN /\ ctorIn = in
     /\ constructed = TRUE
     /\ newErr = n.err
     /\ regTimeout = n.regTimeout
     /\ identity = n.identity
     /\ secured = n.secured
     /\ allowInsecure = n.allowInsecure

\* The fields NewEventsClient leaves at their zero value, and nothing running.
Unstarted ==
  /\ stream = 0
  /\ clientConn = 0
  /\ processEventsCompleted = 0
  /\ mu = "free"
  /\ conns = <<>>
  /\ streams = <<>>
  /\ chans = <<>>
  /\ th = [t \in Threads |-> IdleThread]
  /\ gor = <<>>
  /\ crashed = "none"

Rest ==
  /\ Unstarted
  /\ budget = [Start |-> MaxStarts, Stop |-> MaxStops,
               aux |-> [t \in AuxThreads |-> MaxAuxOps]]

Init ==
  /\ \E in \in CtorInputs({defaultTimeout}) : Constructed(in)
  /\ Rest

\* ---- Start: establishConnectionAndRegister ---------------------------------

L == th[Lifecycle]

SetL(r) == th' = [th EXCEPT ![Lifecycle] = r]

\* Start(): establishConnectionAndRegister(ec.secured) is entered.
StartCall ==
  /\ Running
  /\ L.pc = "idle"
  /\ budget.Start > 0
  /\ budget' = [budget EXCEPT !.Start = @ - 1]
  /\ SetL([NewCall("Start", "dial") EXCEPT !.secured = secured, !.prev = L.ret])
  /\ UNCHANGED <<clientFields, conns, streams, chans, gor, crashed>>

\* newEventsClientConnectionWithAddress: TLSConfig or DialContext fails, or the
\* connection is stored in ec.clientConn.
Dial ==
  /\ Running
  /\ L.pc = "dial"
  /\ \E ok \in BOOLEAN :
       IF ok
       THEN /\ conns' = Append(conns, "open")
            /\ clientConn' = Len(conns) + 1
            /\ SetL([L EXCEPT !.pc = "interests"])
       ELSE /\ SetL(Return(L, "ErrDial"))
            /\ UNCHANGED <<conns, clientConn>>
  /\ UNCHANGED <<config, stream, processEventsCompleted, mu, streams, chans, gor,
                 budget, crashed>>

InterestsErrorEmptyAccepted(r) == IF r = "err" THEN "ErrInterestsRetrieval" ELSE "nil"

\* The error establishConnectionAndRegister returns for the adapter's answer r:
\* one for a failed retrieval, one for len(ies) == 0, none for a list.
InterestsError(r) ==
  CASE r = "err" -> "ErrInterestsRetrieval"
    [] r = "empty" -> "ErrInterestsRequired"
    [] OTHER -> "nil"

GetInterestedEventsClosesConn ==
  /\ Running
  /\ L.pc = "interests"
  /\ \E r \in {"err", "empty", "ies"} :
       LET e == InterestsError(r)
           l == [L EXCEPT !.ies = r]
       IN /\ SetL(IF e # "nil" THEN Return(l, e) ELSE [l EXCEPT !.pc = "chat"])
          /\ conns' = IF e # "nil" THEN [conns EXCEPT ![clientConn] = "closed"] ELSE conns
  /\ UNCHANGED <<clientFields, streams, chans, gor, budget, crashed>>

\* ec.adapter.GetInterestedEvents(): an error, an empty list or a list.
GetInterestedEvents ==
  /\ Running
  /\ L.pc = "interests"
  /\ \E r \in {"err", "empty", "ies"} :
       LET e == InterestsError(r)
           l == [L EXCEPT !.ies = r]
       IN SetL(IF e # "nil" THEN Return(l, e) ELSE [l EXCEPT !.pc = "chat"])
  /\ UNCHANGED <<clientFields, conns, streams, chans, gor, budget, crashed>>

RetryWheneverSecured(sec) == sec

\* The retry of line 335: the stream-open failed in secured mode and insecure
\* mode is allowed.
RetryInsecure(sec) == sec /\ allowInsecure

\* ec.stream, err = serverClient.Chat(...): the generated client returns a nil
\* stream beside an error, so a failed Chat stores nil in ec.stream.
Chat ==
  /\ Running
  /\ L.pc = "chat"
  /\ \E ok \in BOOLEAN :
       IF ok
       THEN /\ streams' = Append(streams, NewStream(clientConn))
            /\ stream' = Len(streams) + 1
            /\ SetL([L EXCEPT !.pc = "regAsync", !.opened = @ + 1])
       ELSE /\ stream' = 0
            /\ UNCHANGED streams
            /\ IF RetryInsecure(L.secured)
               THEN SetL([L EXCEPT !.pc = "dial", !.secured = FALSE, !.retries = @ + 1])
               ELSE SetL(Return(L, "ErrChat"))
  /\ UNCHANGED <<config, clientConn, processEventsCompleted, mu, conns, chans, gor,
                 budget, crashed>>

\* ---- RegisterAsync / UnregisterAsync and send -------------------------------

Handshake(op) == op \in {"Start", "Unregister"}

\* What the caller of send does with the value v that send returned: the async
\* half returns it (UnregisterAsync wrapped); register and Unregister return it
\* when it is an error and otherwise spawn the reader and wait in the select.
AfterSend(r, v) ==
  LET w == IF v # "nil" /\ r.op \in {"UnregisterAsync", "Unregister"}
           THEN "ErrUnregisterSend" ELSE v
  IN IF Handshake(r.op) /\ v = "nil"
     THEN [r EXCEPT !.pc = "regSelect", !.regChan = "open", !.err = "nil", !.ws = 0]
     ELSE Return(r, w)

ReaderKind(op) == IF op = "Start" THEN "regReader" ELSE "unregReader"

SpawnAfterSend(t, v) ==
  IF Handshake(th[t].op) /\ v = "nil"
  THEN Append(gor, NewGor(ReaderKind(th[t].op), t))
  ELSE gor

\* The checks of RegisterAsync / UnregisterAsync before send: a nil identity,
\* or SerializedIdentity failing.  (ptypes.TimestampProto(time.Now()) does not
\* fail for a current time.)
AsyncPrelude(t) ==
  /\ Running
  /\ th[t].pc = "regAsync"
  /\ \E o \in (IF identity = "nil" THEN {"ErrIdentityNil"} ELSE {"ErrIdentity", "ok"}) :
       th' = [th EXCEPT ![t] = IF o = "ok" THEN [@ EXCEPT !.pc = "sendLock"]
                                ELSE Return(@, o)]
  /\ UNCHANGED <<clientFields, conns, streams, chans, gor, budget, crashed>>

\* ec.Lock() of send: the caller waits until the mutex is free.
LockNotWaitedFor(t) == TRUE

LockFree(t) == mu = "free"

SendLock(t) ==
  /\ Running
  /\ th[t].pc = "sendLock"
  /\ LockFree(t)
  /\ mu' = t
  /\ th' = [th EXCEPT ![t].pc = "sendBody"]
  /\ UNCHANGED <<config, stream, clientConn, processEventsCompleted, conns, streams,
                 chans, gor, budget, crashed>>

UnlockedNotReleased(t) == t

\* The mutex after send's deferred ec.Unlock().
Unlocked(t) == "free"

\* proto.Marshal, SigningManager() and Sign, each of which may fail and return
\* (the deferred Unlock runs); otherwise ec.stream.Send(signedEvt) begins, and a
\* nil ec.stream panics.
SendBody(t) ==
  /\ Running
  /\ th[t].pc = "sendBody"
  /\ \E o \in {"ErrMarshal", "ErrSigningMgrNil", "ErrSign", "write"} :
       IF o # "write"
       THEN /\ mu' = Unlocked(t)
            /\ th' = [th EXCEPT ![t] = AfterSend(@, o)]
            /\ UNCHANGED <<gor, crashed>>
       ELSE IF stream = 0
       THEN /\ Crash("nil stream in send")
            /\ UNCHANGED <<mu, th, gor>>
       ELSE /\ th' = [th EXCEPT ![t] = [@ EXCEPT !.pc = "sendWrite", !.ws = stream]]
            /\ UNCHANGED <<mu, gor, crashed>>
  /\ UNCHANGED <<config, stream, clientConn, processEventsCompleted, conns, streams,
                 chans, budget>>

\* ec.stream.Send returns, with an error or not; send returns that value and
\* its deferred Unlock runs.
SendDone(t) ==
  /\ Running
  /\ th[t].pc = "sendWrite"
  /\ \E v \in {"nil", "ErrStreamSend"} :
       /\ th' = [th EXCEPT ![t] = AfterSend([@ EXCEPT !.sent = IF v = "nil" THEN @ + 1 ELSE @], v)]
       /\ gor' = SpawnAfterSend(t, v)
  /\ mu' = Unlocked(t)
  /\ UNCHANGED <<config, stream, clientConn, processEventsCompleted, conns, streams,
                 chans, budget, crashed>>

\* ---- register / Unregister: the reader and the select ------------------------

TimeoutErrorNotSet(op) == "nil"

\* The error the timer case of the select assigns to err.
TimeoutError(op) == IF op = "Start" THEN "ErrRegisterTimeout" ELSE "ErrUnregisterTimeout"

\* The select of register / Unregister: regChan is closed, or time.After fires
\* and err is assigned the timeout error.  Go picks any ready case.
RegSelect(t) ==
  /\ Running
  /\ th[t].pc = "regSelect"
  /\ \/ /\ th[t].regChan = "closed"
        /\ th' = [th EXCEPT ![t] = [@ EXCEPT !.pc = "regRet", !.via = "chan"]]
     \/ th' = [th EXCEPT ![t] = [@ EXCEPT !.pc = "regRet", !.via = "timer",
                                            !.err = TimeoutError(th[t].op)]]
  /\ UNCHANGED <<clientFields, conns, streams, chans, gor, budget, crashed>>

\* A reader whose caller has returned writes to variables nobody reads.
Orphaned(t) ==
  [i \in DOMAIN gor |-> IF gor[i].owner = t THEN [gor[i] EXCEPT !.owner = "none"]
                        ELSE gor[i]]

LoopStartedOnAnyReturn(op, v) == op = "Start"

\* if err = ec.register(ies); err != nil { return err }: the lines after it run
\* only in Start and only when register returned nil.
LoopStarted(op, v) == op = "Start" /\ v = "nil"

\* return err of register / Unregister.  In Start an error is returned; on nil
\* the completion channel is made and processEvents is started.
RegReturn(t) ==
  /\ Running
  /\ th[t].pc = "regRet"
  /\ LET v == th[t].err
         started == LoopStarted(th[t].op, v)
     IN /\ th' = [th EXCEPT ![t] = Return([@ EXCEPT !.loops = IF started THEN @ + 1 ELSE @], v)]
        /\ IF started
           THEN /\ chans' = Append(chans, "open")
                /\ processEventsCompleted' = Len(chans) + 1
                /\ gor' = Append(Orphaned(t), NewGor("processEvents", "none"))
           ELSE /\ gor' = Orphaned(t)
                /\ UNCHANGED <<chans, processEventsCompleted>>
  /\ UNCHANGED <<config, stream, clientConn, mu, conns, streams, budget, crashed>>

\* What a stream.Recv that completes now can return: the end a stream has
\* already reached, an error once its connection is closed, and otherwise a
\* message, io.EOF or an error.
RecvOutcomes(s) ==
  IF streams[s].ended # "no" THEN {streams[s].ended}
  ELSE IF conns[streams[s].conn] = "closed" THEN {"ErrRecv"}
  ELSE {"EOF", "ErrRecv"} \cup MsgKinds

\* The stream after a Recv returned o: an end is kept.
Received(s, o) ==
  IF o \in MsgKinds THEN streams ELSE [streams EXCEPT ![s].ended = o]

\* The reader goroutine reaches ec.stream.Recv(): it reads ec.stream then.
ReaderStart(i) ==
  /\ Running
  /\ gor[i].kind \in {"regReader", "unregReader"}
  /\ gor[i].pc = "start"
  /\ IF stream = 0
     THEN Crash("nil stream in handshake reader") /\ UNCHANGED gor
     ELSE gor' = [gor EXCEPT ![i] = [@ EXCEPT !.pc = "recv", !.s = stream]] /\ UNCHANGED crashed
  /\ UNCHANGED <<clientFields, conns, streams, chans, th, budget>>

Expected(kind) == IF kind = "regReader" THEN "Register" ELSE "Unregister"

ClassifyNilAccepted(kind, o, err) ==
  CASE o \notin MsgKinds -> o
    [] o \in {Expected(kind), "nil"} -> err
    [] OTHER -> "ErrInvalidObject"

\* The value the reader leaves in err: the receive error, nothing for the
\* expected kind, and the two protocol errors.
Classify(kind, o, err) ==
  CASE o \notin MsgKinds -> o
    [] o = Expected(kind) -> err
    [] o = "nil" -> "ErrNilObject"
    [] OTHER -> "ErrInvalidObject"

\* The reader's Recv returns; it assigns err and closes regChan.
ReaderRecv(i) ==
  /\ Running
  /\ gor[i].kind \in {"regReader", "unregReader"}
  /\ gor[i].pc = "recv"
  /\ \E o \in RecvOutcomes(gor[i].s) :
       /\ streams' = Received(gor[i].s, o)
       /\ th' = IF gor[i].owner = "none" THEN th
                ELSE [th EXCEPT ![gor[i].owner] =
                        [@ EXCEPT !.err = Classify(gor[i].kind, o, @),
                                  !.regChan = "closed", !.ack = o]]
  /\ gor' = [gor EXCEPT ![i] = DoneGor(@)]
  /\ UNCHANGED <<clientFields, conns, chans, budget, crashed>>

\* ---- processEvents -----------------------------------------------------------

\* The two defer statements: their operands ec.stream and
\* ec.processEventsCompleted are evaluated when the goroutine reaches them.
ProcessEventsStart(i) ==
  /\ Running
  /\ gor[i].kind = "processEvents"
  /\ gor[i].pc = "start"
  /\ IF stream = 0
     THEN Crash("nil stream in processEvents") /\ UNCHANGED gor
     ELSE /\ gor' = [gor EXCEPT ![i] = [@ EXCEPT !.pc = "top", !.cs = stream,
                                                  !.c = processEventsCompleted]]
          /\ UNCHANGED crashed
  /\ UNCHANGED <<clientFields, conns, streams, chans, th, budget>>

\* The head of the loop: ec.stream is read for each Recv, and a nil ec.stream
\* panics.
ProcessEventsTop(i) ==
  /\ Running
  /\ gor[i].kind = "processEvents"
  /\ gor[i].pc = "top"
  /\ IF stream = 0
     THEN Crash("nil stream in processEvents") /\ UNCHANGED gor
     ELSE gor' = [gor EXCEPT ![i] = [@ EXCEPT !.pc = "recv", !.s = stream]] /\ UNCHANGED crashed
  /\ UNCHANGED <<clientFields, conns, streams, chans, th, budget>>

OnStreamEndEOFReported(g, o) ==
  [g EXCEPT !.pc = "closeChan", !.s = 0, !.last = o, !.disc = Append(@, o), !.ret = o]

\* The loop after a receive that returned io.EOF or an error: Disconnected is
\* called with nil or the error, and the loop returns nil or the error.
OnStreamEnd(g, o) ==
  LET e == IF o = "EOF" THEN "nil" ELSE o
  IN [g EXCEPT !.pc = "closeChan", !.s = 0, !.last = o, !.disc = Append(@, e), !.ret = e]


\* What adapter.Recv can return: continue or not, with an error or without.
AdapterAnswers == [cont : BOOLEAN, err : {"nil", "ErrAdapter"}]

\* One receive of the loop: a stream end is handled at once; a message is
\* handed to adapter.Recv, which returns (cont, err).
ProcessEventsRecv(i) ==
  /\ Running
  /\ gor[i].kind = "processEvents"
  /\ gor[i].pc = "recv"
  /\ \E o \in RecvOutcomes(gor[i].s) :
       /\ streams' = Received(gor[i].s, o)
       /\ IF o \in MsgKinds
          THEN \E a \in AdapterAnswers :
                 gor' = [gor EXCEPT ![i] = [@ EXCEPT !.pc = "adapter", !.s = 0,
                                                      !.cont = a.cont, !.aerr = a.err]]
          ELSE gor' = [gor EXCEPT ![i] = OnStreamEnd(@, o)]
  /\ UNCHANGED <<clientFields, conns, chans, th, budget, crashed>>

OnMessageDisconnects(g) ==
  IF g.cont
  THEN [g EXCEPT !.pc = "top", !.cont = FALSE, !.aerr = "nil"]
  ELSE [g EXCEPT !.pc = "closeChan", !.last = "msg", !.fwd = TRUE, !.ret = g.aerr,
                 !.disc = Append(@, g.aerr), !.cont = FALSE, !.aerr = "nil"]

OnMessageErrorStops(g) ==
  IF g.cont /\ g.aerr = "nil"
  THEN [g EXCEPT !.pc = "top", !.cont = FALSE, !.aerr = "nil"]
  ELSE [g EXCEPT !.pc = "closeChan", !.last = "msg", !.fwd = TRUE, !.ret = g.aerr,
                 !.cont = FALSE, !.aerr = "nil"]

\* if !cont { return err }: without cont the loop returns the adapter's error,
\* with cont it goes to the head of the loop.
OnMessage(g) ==
  IF g.cont
  THEN [g EXCEPT !.pc = "top", !.cont = FALSE, !.aerr = "nil"]
  ELSE [g EXCEPT !.pc = "closeChan", !.last = "msg", !.fwd = TRUE, !.ret = g.aerr,
                 !.cont = FALSE, !.aerr = "nil"]

\* The test of cont after adapter.Recv returned.
ProcessEventsBranch(i) ==
  /\ Running
  /\ gor[i].kind = "processEvents"
  /\ gor[i].pc = "adapter"
  /\ gor' = [gor EXCEPT ![i] = OnMessage(@)]
  /\ UNCHANGED <<clientFields, conns, streams, chans, th, budget, crashed>>

\* The deferred close(ec.processEventsCompleted), which runs first: closing a
\* closed channel panics.
ProcessEventsCloseChan(i) ==
  /\ Running
  /\ gor[i].kind = "processEvents"
  /\ gor[i].pc = "closeChan"
  /\ IF chans[gor[i].c] = "closed"
     THEN Crash("close of closed channel") /\ UNCHANGED <<gor, chans>>
     ELSE /\ chans' = [chans EXCEPT ![gor[i].c] = "closed"]
          /\ gor' = [gor EXCEPT ![i] = [NewGor(@.kind, "none") EXCEPT
                                           !.pc = "closeSend", !.cs = gor[i].cs]]
          /\ UNCHANGED crashed
  /\ UNCHANGED <<clientFields, conns, streams, th, budget>>

\* The deferred ec.stream.CloseSend(), which runs last.
ProcessEventsCloseSend(i) ==
  /\ Running
  /\ gor[i].kind = "processEvents"
  /\ gor[i].pc = "closeSend"
  /\ gor' = [gor EXCEPT ![i] = DoneGor(@)]
  /\ UNCHANGED <<clientFields, conns, streams, chans, th, budget, crashed>>

\* ---- Stop ----------------------------------------------------------------------

NoStreamNotChecked == FALSE

\* The test ec.stream == nil of Stop.
NoStream == stream = 0

\* Stop() up to its first return or call: with no stream it returns nil.
StopCall ==
  /\ Running
  /\ L.pc = "idle"
  /\ budget.Stop > 0
  /\ budget' = [budget EXCEPT !.Stop = @ - 1]
  /\ SetL(IF NoStream THEN Return([NewCall("Stop", "idle") EXCEPT !.prev = L.ret], "nil")
          ELSE [NewCall("Stop", "closeSend") EXCEPT !.prev = L.ret])
  /\ UNCHANGED <<clientFields, conns, streams, chans, gor, crashed>>

HalfClosedEndsReceive(k) == [streams EXCEPT ![k].ended = "EOF"]

\* The streams after CloseSend on stream k: "this closes only sending direction
\* of the stream; event is still there", so what a Recv can return is unchanged.
HalfClosed(k) == streams

\* err := ec.stream.CloseSend()
CloseSendError(ok) == IF ok THEN "nil" ELSE "ErrCloseSend"

AfterCloseSendErrorIgnored(r, ok) ==
  [r EXCEPT !.pc = "stopSelect", !.closeSends = @ + 1, !.csErr = CloseSendError(ok)]

\* Stop after its CloseSend returned: an error is returned at once, and else
\* Stop goes to its select.
AfterCloseSend(r, ok) ==
  IF ok
  THEN [r EXCEPT !.pc = "stopSelect", !.closeSends = @ + 1]
  ELSE Return([r EXCEPT !.closeSends = @ + 1, !.csErr = CloseSendError(ok)],
              CloseSendError(ok))

\* ec.stream.CloseSend() of Stop: its error is returned at once.
StopCloseSend ==
  /\ Running
  /\ L.pc = "closeSend"
  /\ \E ok \in BOOLEAN :
       /\ SetL(AfterCloseSend(L, ok))
       /\ streams' = IF ok THEN HalfClosed(stream) ELSE streams
  /\ UNCHANGED <<clientFields, conns, chans, gor, budget, crashed>>

\* A receive from the completion channel is ready once it is closed; a nil
\* channel is never ready.
Completed == processEventsCompleted # 0 /\ chans[processEventsCompleted] = "closed"

ShutdownTimeoutErrorNotSet == "nil"

\* The error the timer case of Stop's select records in timeoutErr.
ShutdownTimeoutError == "ErrStopTimeout"

\* The select of Stop: the completion channel is closed, or time.After fires and
\* timeoutErr is set.
StopSelect ==
  /\ Running
  /\ L.pc = "stopSelect"
  /\ \/ /\ Completed
        /\ SetL([L EXCEPT !.pc = "connClose", !.via = "chan"])
     \/ SetL([L EXCEPT !.pc = "connClose", !.via = "timer",
                       !.timeoutErr = ShutdownTimeoutError])
  /\ UNCHANGED <<clientFields, conns, streams, chans, gor, budget, crashed>>

StopResultTimeoutFirst(closeErr, timeoutErr) ==
  IF timeoutErr # "nil" THEN timeoutErr
  ELSE IF closeErr # "nil" THEN closeErr
  ELSE "nil"

\* What Stop returns after closing the connection with result closeErr.
StopResult(closeErr, timeoutErr) ==
  IF closeErr # "nil" THEN closeErr
  ELSE IF timeoutErr # "nil" THEN timeoutErr
  ELSE "nil"

\* What ClientConn.Close can return: an error for a connection that is closed
\* already, and else nil or an error.
CloseOutcomes(c) == IF conns[c] = "closed" THEN {"ErrConnClose"} ELSE {"nil", "ErrConnClose"}

\* ec.clientConn.Close() when clientConn is set, and the return of Stop.
StopConnClose ==
  /\ Running
  /\ L.pc = "connClose"
  /\ IF clientConn # 0
     THEN \E e \in CloseOutcomes(clientConn) :
            /\ conns' = [conns EXCEPT ![clientConn] = "closed"]
            /\ SetL(Return([L EXCEPT !.connCloses = @ + 1, !.closeErr = e],
                           StopResult(e, L.timeoutErr)))
     ELSE /\ SetL(Return(L, StopResult("nil", L.timeoutErr)))
          /\ UNCHANGED conns
  /\ UNCHANGED <<clientFields, streams, chans, gor, budget, crashed>>

\* ---- the auxiliary callers ---------------------------------------------------

AsyncOps == {"RegisterAsync", "UnregisterAsync", "Unregister"}

\* RegisterAsync, UnregisterAsync or Unregister is called.
AsyncCall(t) ==
  /\ Running
  /\ th[t].pc = "idle"
  /\ budget.aux[t] > 0
  /\ budget' = [budget EXCEPT !.aux[t] = @ - 1]
  /\ \E op \in AsyncOps : th' = [th EXCEPT ![t] = NewCall(op, "regAsync")]
  /\ UNCHANGED <<clientFields, conns, streams, chans, gor, crashed>>

\* Recv() is called: ec.stream.Recv() is entered on the stream ec.stream holds.
RecvCall(t) ==
  /\ Running
  /\ th[t].pc = "idle"
  /\ budget.aux[t] > 0
  /\ budget' = [budget EXCEPT !.aux[t] = @ - 1]
  /\ IF stream = 0
     THEN Crash("nil stream in Recv") /\ UNCHANGED th
     ELSE /\ th' = [th EXCEPT ![t] = [NewCall("Recv", "recv") EXCEPT !.ws = stream]]
          /\ UNCHANGED crashed
  /\ UNCHANGED <<clientFields, conns, streams, chans, gor>>

\* The Recv of the accessor returns: the message, or the error after
\* Disconnected was called.
RecvReturn(t) ==
  /\ Running
  /\ th[t].pc = "recv"
  /\ \E o \in RecvOutcomes(th[t].ws) :
       /\ streams' = Received(th[t].ws, o)
       /\ th' = [th EXCEPT ![t] = Return(@, IF o \in MsgKinds THEN "msg" ELSE o)]
  /\ UNCHANGED <<clientFields, conns, chans, gor, budget, crashed>>

\* ---- the specification ------------------------------------------------------------

\* The steps of caller t that its own scheduling takes it through: not the
\* start of a call, and not the return of a Recv that waits for the peer.
Step(t) ==
  \/ AsyncPrelude(t)
  \/ SendLock(t)
  \/ SendBody(t)
  \/ SendDone(t)
  \/ RegSelect(t)
  \/ RegReturn(t)
  \/ /\ t = Lifecycle
     /\ \/ Dial
        \/ GetInterestedEvents
        \/ Chat
        \/ StopCloseSend
        \/ StopSelect
        \/ StopConnClose

Next ==
  \/ StartCall
  \/ Dial
  \/ GetInterestedEvents
  \/ Chat
  \/ StopCall
  \/ StopCloseSend
  \/ StopSelect
  \/ StopConnClose
  \/ \E t \in Threads : AsyncPrelude(t)
  \/ \E t \in Threads : SendLock(t)
  \/ \E t \in Threads : SendBody(t)
  \/ \E t \in Threads : SendDone(t)
  \/ \E t \in Threads : RegSelect(t)
  \/ \E t \in Threads : RegReturn(t)
  \/ \E t \in AuxThreads : AsyncCall(t)
  \/ \E t \in AuxThreads : RecvCall(t)
  \/ \E t \in AuxThreads : RecvReturn(t)
  \/ \E i \in DOMAIN gor : ReaderStart(i)
  \/ \E i \in DOMAIN gor : ReaderRecv(i)
  \/ \E i \in DOMAIN gor : ProcessEventsStart(i)
  \/ \E i \in DOMAIN gor : ProcessEventsTop(i)
  \/ \E i \in DOMAIN gor : ProcessEventsRecv(i)
  \/ \E i \in DOMAIN gor : ProcessEventsBranch(i)
  \/ \E i \in DOMAIN gor : ProcessEventsCloseChan(i)
  \/ \E i \in DOMAIN gor : ProcessEventsCloseSend(i)

Spec == Init /\ [][Next]_vars

\* The Go scheduler runs every caller that can take a step, and a timer that
\* was started fires.
FairSpec == Spec /\ \A t \in Threads : WF_vars(Step(t))

\* ---- the lifecycle caller alone: Start and Stop called again and again ------------

LifeInit ==
  /\ \E in \in CtorInputs({defaultTimeout}) : Constructed(in)
  /\ Unstarted
  /\ budget = [Start |-> MaxRestarts, Stop |-> MaxStops,
               aux |-> [t \in AuxThreads |-> 0]]

LifeNext ==
  \/ StartCall
  \/ Dial
  \/ GetInterestedEvents
  \/ Chat
  \/ StopCall
  \/ StopCloseSend
  \/ StopSelect
  \/ StopConnClose
  \/ AsyncPrelude(Lifecycle)
  \/ SendLock(Lifecycle)
  \/ SendBody(Lifecycle)
  \/ SendDone(Lifecycle)
  \/ RegSelect(Lifecycle)
  \/ RegReturn(Lifecycle)
  \/ \E i \in DOMAIN gor : ReaderStart(i)
  \/ \E i \in DOMAIN gor : ReaderRecv(i)
  \/ \E i \in DOMAIN gor : ProcessEventsStart(i)
  \/ \E i \in DOMAIN gor : ProcessEventsTop(i)
  \/ \E i \in DOMAIN gor : ProcessEventsRecv(i)
  \/ \E i \in DOMAIN gor : ProcessEventsBranch(i)
  \/ \E i \in DOMAIN gor : ProcessEventsCloseChan(i)
  \/ \E i \in DOMAIN gor : ProcessEventsCloseSend(i)

LifeSpec == LifeInit /\ [][LifeNext]_vars

\* ---- the constructor alone ----------------------------------------------------

CtorInit ==
  /\ ctorIn \in CtorInputs(TimeoutInputs)
  /\ constructed = FALSE
  /\ newErr = "nil"
  /\ regTimeout = 0
  /\ identity = "nil"
  /\ secured = FALSE
  /\ allowInsecure = FALSE
  /\ Rest

\* NewEventsClient(..., regTimeout, ...) returns the client and the error.
Construct ==
  /\ ~constructed
  /\ LET n == NewEventsClient(ctorIn)
     IN /\ constructed' = TRUE
        /\ newErr' = n.err
        /\ regTimeout' = n.regTimeout
        /\ identity' = n.identity
        /\ secured' = n.secured
        /\ allowInsecure' = n.allowInsecure
  /\ UNCHANGED <<ctorIn, stream, clientConn, processEventsCompleted, mu, conns, streams,
                 chans, th, gor, budget, crashed>>

CtorSpec == CtorInit /\ [][Construct]_vars

\* ---- the calls the properties are about -----------------------------------------

\* Start has returned, through the select case `via` of register.
StartReturned(via) == L.op = "Start" /\ L.pc = "idle" /\ L.via = via

\* Stop has returned after its select, which it reaches only when CloseSend
\* succeeded.
StopDrained == L.op = "Stop" /\ L.pc = "idle" /\ L.via # "none"

\* The step in which the Chat of the current attempt fails.
ChatFailed == L.pc = "chat" /\ th'[Lifecycle] # L /\ stream' = 0

\* The step in which establishConnectionAndRegister is re-invoked.
Retried == th'[Lifecycle].op = L.op /\ th'[Lifecycle].retries = L.retries + 1

\* The step in which Stop is called.
StopCalled == L.pc = "idle" /\ budget'.Stop # budget.Stop

\* Caller t is between ec.Lock() and the deferred ec.Unlock() of send.
InSend(t) == th[t].pc \in {"sendBody", "sendWrite"}

\* The callers inside ec.stream.Send on stream s.
Writers(s) == {t \in Threads : th[t].pc = "sendWrite" /\ th[t].ws = s}

\* ---- C1 ---------------------------------------------------------------------------

\* C1: for every registration timeout t handed to NewEventsClient, t < 100ms
\* gives regTimeout = 100ms and a non-nil error, t > 60s gives regTimeout = 60s
\* and a non-nil error, and any other t (100ms and 60s included) is kept and the
\* error is nil; a client is returned in every case.
C1_TimeoutClamped ==
  constructed =>
    LET t == ctorIn.regTimeout
    IN /\ t < MinRegTimeout => regTimeout = MinRegTimeout /\ newErr # "nil"
       /\ t > MaxRegTimeout => regTimeout = MaxRegTimeout /\ newErr # "nil"
       /\ (t >= MinRegTimeout /\ t <= MaxRegTimeout) => regTimeout = t /\ newErr = "nil"
       /\ identity = ctorIn.identity
       /\ secured = ctorIn.attemptSecured
       /\ allowInsecure = ctorIn.allowInsecure

\* A client built with a timeout at the lower boundary: kept, no error.
C1_BoundaryKept ==
  constructed /\ ctorIn.regTimeout = MinRegTimeout /\ regTimeout = MinRegTimeout
  /\ newErr = "nil"

\* ---- C2 ---------------------------------------------------------------------------

\* C2: when the Register message was sent and the reader has received nothing by
\* the time register returns, register returned through the timer and Start
\* returns the "register timeout" error; and a Start that waits in register's
\* select always returns (or the process has panicked), whatever the reader does.
C2_RegisterTimesOut ==
  /\ [](StartReturned("timer") /\ L.ack = "none" => L.ret = "ErrRegisterTimeout")
  /\ [](L.op = "Start" /\ L.pc = "idle" /\ L.sent = 1 /\ L.ack = "none"
          => L.via = "timer")
  /\ (L.op = "Start" /\ L.pc = "regSelect")
       ~> ((L.op = "Start" /\ L.pc = "idle") \/ crashed # "none")

\* Start has returned the timeout error while the reader it spawned is still
\* inside stream.Recv.
C2_TimedOutReaderPending ==
  /\ StartReturned("timer")
  /\ L.ack = "none"
  /\ L.ret = "ErrRegisterTimeout"
  /\ \E i \in DOMAIN gor : gor[i].kind = "regReader" /\ gor[i].pc = "recv"

\* ---- C3 ---------------------------------------------------------------------------

\* C3: when register returns because the reader finished, it returns nil exactly
\* when the message received is a Register event; an event with a nil kind gives
\* "nil object for register", another kind "invalid object for register", and a
\* receive error is returned as it is.  Start never returns nil without a
\* Register event having been received.
C3_AckClassified ==
  /\ StartReturned("chan") =>
       /\ L.ret = "nil" <=> L.ack = "Register"
       /\ L.ack = "nil" => L.ret = "ErrNilObject"
       /\ L.ack \in MsgKinds \ {"Register", "nil"} => L.ret = "ErrInvalidObject"
       /\ L.ack \notin MsgKinds => L.ret = L.ack /\ L.ack \in {"EOF", "ErrRecv"}
  /\ (L.op = "Start" /\ L.pc = "idle" /\ L.ret = "nil") =>
       L.ack = "Register" /\ L.via = "chan"

\* Start has returned "invalid object for register" for a Block event.
C3_WrongKindRejected ==
  StartReturned("chan") /\ L.ack = "Block" /\ L.ret = "ErrInvalidObject"

\* ---- C4 ---------------------------------------------------------------------------

\* C4: within one Start, establishConnectionAndRegister is re-invoked exactly in
\* the step where Chat fails in secured mode with allowInsecure set, and then in
\* insecure mode; every other Chat failure is returned; no other step retries;
\* and a retry happens only in a call that has not retried yet.
C4_RetryOnce ==
  [][/\ Retried <=> (ChatFailed /\ L.secured /\ allowInsecure)
     /\ Retried => /\ L.retries = 0
                   /\ th'[Lifecycle].pc = "dial"
                   /\ ~th'[Lifecycle].secured
     /\ (ChatFailed /\ ~(L.secured /\ allowInsecure)) =>
          /\ th'[Lifecycle].pc = "idle"
          /\ th'[Lifecycle].ret = "ErrChat"
          /\ th'[Lifecycle].retries = L.retries]_vars

\* The Chat of the insecure retry has failed and Start has returned its error.
C4_RetryFailed ==
  L.op = "Start" /\ L.pc = "idle" /\ L.retries = 1 /\ L.ret = "ErrChat" /\ allowInsecure

\* ---- C5 ---------------------------------------------------------------------------

\* C5: a Start in which GetInterestedEvents failed or returned an empty list has
\* returned an error, and has opened no stream, written no Register message and
\* started no processEvents loop.
C5_NoInterestsNoHandshake ==
  (L.op = "Start" /\ L.ies \in {"err", "empty"}) =>
    /\ L.pc = "idle"
    /\ L.ret = (IF L.ies = "err" THEN "ErrInterestsRetrieval" ELSE "ErrInterestsRequired")
    /\ L.opened = 0
    /\ L.sent = 0
    /\ L.loops = 0

\* Start has returned the error for an empty interest list, with the connection
\* it dialed.
C5_EmptyInterests ==
  /\ L.op = "Start" /\ L.pc = "idle" /\ L.ies = "empty"
  /\ L.ret = "ErrInterestsRequired"
  /\ clientConn # 0 /\ stream = 0

\* ---- C6 ---------------------------------------------------------------------------

\* C6: a Stop called while ec.stream is nil returns nil in the same step: no
\* CloseSend, no select, no ClientConn.Close, and no field of the client, no
\* connection, stream, channel or goroutine changes.
C6_StopUnstartedNoEffect ==
  [][(StopCalled /\ stream = 0) =>
       /\ th'[Lifecycle].pc = "idle"
       /\ th'[Lifecycle].ret = "nil"
       /\ th'[Lifecycle].closeSends = 0
       /\ th'[Lifecycle].via = "none"
       /\ th'[Lifecycle].connCloses = 0
       /\ UNCHANGED <<clientFields, conns, streams, chans, gor, crashed>>]_vars

\* Stop has returned nil on a client whose Start dialed a connection and failed
\* before a stream was opened: the connection is still open.
C6_StoppedBeforeStream ==
  /\ L.op = "Stop" /\ L.pc = "idle" /\ L.ret = "nil"
  /\ stream = 0 /\ L.closeSends = 0
  /\ clientConn # 0 /\ conns[clientConn] = "open"

\* ---- C7 ---------------------------------------------------------------------------

\* C7 as stated: a Stop that left its select through the timer has returned the
\* "close event stream timeout" error.
C7_TimeoutErrorReturned ==
  (StopDrained /\ L.via = "timer") => L.ret = "ErrStopTimeout"

\* C7: a Stop that waits in its select always returns (or the process has
\* panicked); when it left the select through the timer it has closed the
\* connection and returned an error, never nil: the error of ClientConn.Close
\* when that failed, and else the "close event stream timeout" error.
C7_StopTimesOut ==
  /\ []((StopDrained /\ L.via = "timer") =>
          /\ L.connCloses = 1
          /\ conns[clientConn] = "closed"
          /\ L.ret # "nil"
          /\ L.ret = (IF L.closeErr # "nil" THEN L.closeErr ELSE "ErrStopTimeout"))
  /\ (L.op = "Stop" /\ L.pc = "stopSelect")
       ~> ((L.op = "Stop" /\ L.pc = "idle") \/ crashed # "none")

\* Stop has returned the timeout error while the processEvents loop is still
\* receiving and the completion channel is open.
C7_TimedOutLoopRunning ==
  /\ StopDrained /\ L.via = "timer" /\ L.ret = "ErrStopTimeout"
  /\ processEventsCompleted # 0 /\ chans[processEventsCompleted] = "open"
  /\ \E i \in DOMAIN gor : gor[i].kind = "processEvents" /\ gor[i].pc = "recv"

\* ---- C8 ---------------------------------------------------------------------------

\* C8: a Stop whose CloseSend succeeded returns the error of ClientConn.Close
\* when that failed, else the timeout error when its select timed out, and else
\* nil.
C8_StopPrecedence ==
  StopDrained =>
    /\ L.closeSends = 1
    /\ L.connCloses = 1
    /\ L.ret = (IF L.closeErr # "nil" THEN L.closeErr
                ELSE IF L.via = "timer" THEN "ErrStopTimeout"
                ELSE "nil")

\* Stop timed out in its select, ClientConn.Close failed, and the close error
\* was returned.
C8_CloseErrorOverTimeout ==
  StopDrained /\ L.via = "timer" /\ L.closeErr = "ErrConnClose" /\ L.ret = "ErrConnClose"

\* ---- C9 ---------------------------------------------------------------------------

\* C9: at most one caller is between Lock and Unlock of send, it is the holder of
\* the mutex, and at most one caller is inside stream.Send on any stream.
C9_SendSerialized ==
  /\ Cardinality({t \in Threads : InSend(t)}) <= 1
  /\ \A t \in Threads : InSend(t) => mu = t
  /\ \A s \in DOMAIN streams : Cardinality(Writers(s)) <= 1

\* The lifecycle caller is inside stream.Send while an auxiliary caller waits
\* for the mutex.
C9_WriterAndWaiter ==
  /\ L.pc = "sendWrite"
  /\ \E t \in AuxThreads : th[t].pc = "sendLock"

\* ---- C10 --------------------------------------------------------------------------

\* C10: when the Recv of processEvents returned io.EOF the loop has called
\* Disconnected once, with nil, and returns nil; when it returned another error
\* the loop has called Disconnected once, with that error, and returns it; in
\* both cases adapter.Recv was not called and the loop is at its return, with no
\* receive in progress.
C10_StreamEndHandled ==
  \A i \in DOMAIN gor :
    (gor[i].kind = "processEvents" /\ gor[i].last \in {"EOF", "ErrRecv"}) =>
      /\ gor[i].disc = <<IF gor[i].last = "EOF" THEN "nil" ELSE gor[i].last>>
      /\ gor[i].ret = (IF gor[i].last = "EOF" THEN "nil" ELSE gor[i].last)
      /\ ~gor[i].fwd
      /\ gor[i].pc = "closeChan"
      /\ gor[i].s = 0

\* A processEvents loop has returned nil after io.EOF.
C10_LoopEndedOnEOF ==
  \E i \in DOMAIN gor :
    /\ gor[i].kind = "processEvents" /\ gor[i].last = "EOF"
    /\ gor[i].disc = <<"nil">> /\ gor[i].ret = "nil"

\* ---- C11 --------------------------------------------------------------------------

\* Goroutine i is a processEvents loop at pc.
LoopAt(i, pc) == gor[i].kind = "processEvents" /\ gor[i].pc = pc

\* C11: when adapter.Recv returned cont = false with error F (nil or not), the
\* next step of the loop is its return, with F, without a Disconnected call and
\* with no receive in progress; when it returned cont = true the loop goes to
\* its head for the next receive, whatever the error; and a loop that has
\* returned never receives or forwards again.
C11_AdapterDecides ==
  [][\A i \in DOMAIN gor :
       /\ (LoopAt(i, "adapter") /\ gor'[i] # gor[i]) =>
            IF gor[i].cont
            THEN gor'[i].pc = "top" /\ gor'[i].ret = "none" /\ gor'[i].last = "none"
            ELSE /\ gor'[i].pc = "closeChan"
                 /\ gor'[i].ret = gor[i].aerr
                 /\ gor'[i].s = 0
                 /\ gor'[i].disc = <<>>
       /\ gor[i].pc \in {"closeChan", "closeSend", "done"} =>
            gor'[i].pc \in {"closeChan", "closeSend", "done"}]_vars

\* A loop has returned nil at the adapter's request while its stream has not
\* ended.
C11_StoppedByAdapter ==
  \E i \in DOMAIN gor :
    /\ LoopAt(i, "closeChan") /\ gor[i].last = "msg" /\ gor[i].ret = "nil"
    /\ streams[gor[i].cs].ended = "no"

\* ---- C12 --------------------------------------------------------------------------

\* The completion channels that are closed, and the loops that have run their
\* deferred close.
ClosedSignals == {k \in DOMAIN chans : chans[k] = "closed"}

ExitedLoops ==
  {i \in DOMAIN gor : gor[i].kind = "processEvents" /\ gor[i].pc \in {"closeSend", "done"}}

\* C12: every processEvents loop that has exited has closed one completion
\* channel, and no completion channel is closed twice, under any sequence of
\* Start and Stop calls.
C12_SignalClosedOnce ==
  /\ Cardinality(ClosedSignals) = Cardinality(ExitedLoops)
  /\ crashed # "close of closed channel"

\* ---- C14 --------------------------------------------------------------------------

\* The streams that are open: not ended, on a connection that is not closed.
LiveStreams ==
  {k \in DOMAIN streams : streams[k].ended = "no" /\ conns[streams[k].conn] = "open"}

\* C14: at most one stream opened by the client is live at any time.
C14_OneLiveStream == Cardinality(LiveStreams) <= 1

\* ---- C13 --------------------------------------------------------------------------

\* C13: whenever no Start or Stop is in progress, ec.clientConn is set exactly
\* when ec.stream is set.
C13_ConnIffStream == L.pc = "idle" => (clientConn # 0 <=> stream # 0)

\* ---- C15 --------------------------------------------------------------------------

\* The goroutines and the callers inside stream.Recv on stream k.
LoopReceivers(k) == {i \in DOMAIN gor : LoopAt(i, "recv") /\ gor[i].s = k}

ReaderReceivers(k) ==
  {i \in DOMAIN gor : gor[i].kind \in {"regReader", "unregReader"}
                      /\ gor[i].pc = "recv" /\ gor[i].s = k}

AccessorReceivers(k) == {t \in Threads : th[t].pc = "recv" /\ th[t].ws = k}

\* C15: while a processEvents loop is inside stream.Recv on a stream, no
\* handshake reader and no caller of the Recv accessor is inside stream.Recv on
\* that stream, and at most one loop is.
C15_SingleReader ==
  \A k \in DOMAIN streams :
    LoopReceivers(k) # {} =>
      /\ Cardinality(LoopReceivers(k)) = 1
      /\ ReaderReceivers(k) = {}
      /\ AccessorReceivers(k) = {}

\* ---- C16 --------------------------------------------------------------------------

\* The processEvents goroutines started so far.
Loops == {i \in DOMAIN gor : gor[i].kind = "processEvents"}

\* C16: a Start that has returned has started one processEvents loop when it
\* returned nil and none when it returned an error, and a Start in progress has
\* started none; the completion channel is assigned and a loop is started only
\* in the step in which register returns nil to Start after a Register event,
\* and that step makes one new, open channel, stores it in the client and
\* starts one loop.
C16_LoopAfterRegister ==
  /\ [](L.op = "Start" =>
          L.loops = (IF L.pc = "idle" /\ L.ret = "nil" THEN 1 ELSE 0))
  /\ [][(processEventsCompleted' # processEventsCompleted \/ Loops' # Loops) =>
          /\ L.op = "Start" /\ L.pc = "regRet"
          /\ th'[Lifecycle].pc = "idle"
          /\ th'[Lifecycle].ret = "nil"
          /\ th'[Lifecycle].ack = "Register"
          /\ chans' = Append(chans, "open")
          /\ processEventsCompleted' = Len(chans')
          /\ gor'[Len(gor')] = NewGor("processEvents", "none")
          /\ Loops' = Loops \cup {Len(gor')}
          /\ Len(gor') = Len(gor) + 1]_vars

\* Start has returned nil: its loop has not run yet and the completion channel
\* is open.
C16_LoopJustStarted ==
  /\ L.op = "Start" /\ L.pc = "idle" /\ L.ret = "nil" /\ L.loops = 1
  /\ chans[processEventsCompleted] = "open"
  /\ \E i \in Loops : gor[i].pc = "start"

\* ---- C17 --------------------------------------------------------------------------

\* C17: a Stop called after a Start that returned an error returns nil in the
\* step of the call, as on a client that was never started.
C17_StopAfterFailedStart ==
  [][(StopCalled /\ L.op = "Start" /\ L.ret # "nil") =>
       /\ th'[Lifecycle].pc = "idle"
       /\ th'[Lifecycle].ret = "nil"]_vars

\* ---- C18 --------------------------------------------------------------------------

\* C18 as stated: a loop that returns R has called Disconnected(R), whatever
\* made it return.
C18_EveryExitNotified ==
  \A i \in DOMAIN gor : LoopAt(i, "closeChan") => gor[i].disc = <<gor[i].ret>>

\* C18: a loop that returns R because its Recv returned io.EOF or an error has
\* called Disconnected once, with R, before it returns; a loop that returns
\* because adapter.Recv asked it to has called Disconnected not at all.
C18_StreamExitNotified ==
  \A i \in DOMAIN gor :
    LoopAt(i, "closeChan") =>
      IF gor[i].last = "msg"
      THEN gor[i].fwd /\ gor[i].disc = <<>>
      ELSE ~gor[i].fwd /\ gor[i].disc = <<gor[i].ret>>

\* A loop returns the adapter's error without having called Disconnected.
C18_AdapterExitSilent ==
  \E i \in DOMAIN gor :
    LoopAt(i, "closeChan") /\ gor[i].last = "msg" /\ gor[i].ret = "ErrAdapter"
    /\ gor[i].disc = <<>>

\* ---- C19 --------------------------------------------------------------------------

\* C19: a Start whose register left its select through the timer returns the
\* "register timeout" error, whatever the reader does afterwards.
C19_TimeoutIsFinal == StartReturned("timer") => L.ret = "ErrRegisterTimeout"

\* ---- C20 --------------------------------------------------------------------------

\* C20: no sequence of Start, Stop, RegisterAsync, UnregisterAsync, Unregister
\* and Recv makes the process panic.
C20_NeverPanics == crashed = "none"

\* ---- C21 --------------------------------------------------------------------------

\* Stop is between its CloseSend and its ClientConn.Close.
Draining == L.op = "Stop" /\ L.pc \in {"stopSelect", "connClose"}

\* C21: the CloseSend of Stop changes no stream's receive side, no connection
\* and no goroutine; while Stop drains, a processEvents loop whose Recv returns a
\* message hands it to adapter.Recv, and it returns without one only when the
\* stream has ended; and a connection is closed only by Stop after its select,
\* which it left because the completion channel is closed or the timer fired.
C21_DrainKeepsReceiving ==
  [][/\ (L.op = "Stop" /\ L.pc = "closeSend" /\ th'[Lifecycle] # L) =>
          /\ streams' = streams
          /\ conns' = conns
          /\ gor' = gor
     /\ \A i \in DOMAIN gor :
          (Draining /\ LoopAt(i, "recv") /\ gor'[i] # gor[i]) =>
            IF streams'[gor[i].s].ended = "no"
            THEN gor'[i].pc = "adapter"
            ELSE gor'[i].pc = "closeChan" /\ gor'[i].last = streams'[gor[i].s].ended
     /\ (\E c \in DOMAIN conns : conns'[c] # conns[c]) =>
          /\ L.op = "Stop" /\ L.pc = "connClose"
          /\ L.via \in {"chan", "timer"}
          /\ L.via = "chan" => Completed
          /\ L.via = "timer" => L.timeoutErr # "nil"]_vars

\* Stop has closed the send half and waits, and the loop is inside Recv on the
\* stream, which has not ended and whose connection is open.
C21_LoopReceivesWhileDraining ==
  /\ L.op = "Stop" /\ L.pc = "stopSelect" /\ L.closeSends = 1
  /\ \E i \in DOMAIN gor :
       /\ LoopAt(i, "recv") /\ gor[i].s = stream
       /\ streams[stream].ended = "no"
       /\ conns[streams[stream].conn] = "open"

\* ---- C22 --------------------------------------------------------------------------

\* The step in which the Recv of a handshake reader on stream k returns a
\* message.
MessageTaken(k) ==
  \E i \in ReaderReceivers(k) : gor'[i].pc = "done" /\ streams'[k].ended = "no"

\* C22: while a processEvents loop receives on a stream, every message the
\* stream delivers is returned to the loop, which hands it to adapter.Recv: none
\* is returned to the reader of a handshake, under any interleaving of the
\* public operations.
C22_LoopGetsEveryMessage ==
  [][\A k \in DOMAIN streams : LoopReceivers(k) # {} => ~MessageTaken(k)]_vars

\* ---- C23 --------------------------------------------------------------------------

\* The errors Start returns for a failed or empty GetInterestedEvents.
InterestsErrors == {"ErrInterestsRetrieval", "ErrInterestsRequired"}

\* C23: a Start that failed at GetInterestedEvents has left the connection it
\* dialed stored in ec.clientConn and open; a Stop called then on a client that
\* holds no stream returns nil in the step of the call and changes neither
\* ec.clientConn nor any connection; and after that Stop the connection is
\* still open.
C23_ConnLeftOpen ==
  /\ []((L.op = "Start" /\ L.pc = "idle" /\ L.ies \in {"err", "empty"}) =>
          /\ clientConn # 0
          /\ clientConn = Len(conns)
          /\ conns[clientConn] = "open")
  /\ [][(StopCalled /\ L.op = "Start" /\ L.ies \in {"err", "empty"} /\ stream = 0) =>
          /\ th'[Lifecycle].pc = "idle"
          /\ th'[Lifecycle].ret = "nil"
          /\ UNCHANGED <<clientConn, conns>>]_vars
  /\ []((L.op = "Stop" /\ L.pc = "idle" /\ L.prev \in InterestsErrors /\ stream = 0) =>
          /\ L.ret = "nil"
          /\ L.connCloses = 0
          /\ conns[clientConn] = "open")

\* Stop has returned nil after a Start that failed on an empty interest list,
\* and the connection that Start dialed is open.
C23_StoppedWithOpenConn ==
  /\ L.op = "Stop" /\ L.pc = "idle" /\ L.prev = "ErrInterestsRequired"
  /\ L.ret = "nil" /\ stream = 0
  /\ clientConn # 0 /\ conns[clientConn] = "open"

\* ---- C24 --------------------------------------------------------------------------

\* C24: the mutex is held only by a caller that is inside send: whichever way a
\* send returned (marshal, signing manager, signing or write failure, or
\* success), the mutex is free again, so a caller that waits for it while nobody
\* is inside send can take it, and a caller inside send can always take its
\* next step: no state is a deadlock on the mutex.
C24_LockReleased ==
  /\ mu = "free" \/ (mu \in Threads /\ InSend(mu))
  /\ \A t \in Threads :
       /\ (Running /\ th[t].pc = "sendLock" /\ \A u \in Threads : ~InSend(u)) =>
            ENABLED SendLock(t)
       /\ (Running /\ InSend(t)) => ENABLED (SendBody(t) \/ SendDone(t))

\* An auxiliary caller's send failed at signing and returned, and the lifecycle
\* caller has taken the mutex after it.
C24_LockTakenAfterFailure ==
  /\ \E t \in AuxThreads : th[t].pc = "idle" /\ th[t].ret \in {"ErrSign", "ErrUnregisterSend"}
  /\ mu = Lifecycle /\ L.pc = "sendBody"

\* ---- C25 --------------------------------------------------------------------------

\* C25: every connection the client dialed is the one ec.clientConn holds or is
\* closed.
C25_NoConnLeaked ==
  \A c \in DOMAIN conns : c = clientConn \/ conns[c] = "closed"

\* ---- C26 --------------------------------------------------------------------------

\* C26: a Stop whose CloseSend failed has returned that error, without having
\* passed its select and without having called ClientConn.Close; and the step
\* in which CloseSend fails is the return of Stop and closes no connection.
C26_CloseSendErrorReturned ==
  /\ []((L.op = "Stop" /\ L.csErr # "nil") =>
          /\ L.pc = "idle"
          /\ L.ret = L.csErr
          /\ L.via = "none"
          /\ L.connCloses = 0)
  /\ [][(L.op = "Stop" /\ L.pc = "closeSend" /\ th'[Lifecycle].csErr # "nil") =>
          /\ th'[Lifecycle].pc = "idle"
          /\ UNCHANGED <<clientConn, conns>>]_vars

\* Stop has returned the error of CloseSend and the client's connection is
\* open.
C26_ConnOpenAfterFailedCloseSend ==
  /\ L.op = "Stop" /\ L.pc = "idle" /\ L.csErr = "ErrCloseSend" /\ L.ret = "ErrCloseSend"
  /\ conns[clientConn] = "open"

\* ---- C27 --------------------------------------------------------------------------

\* C27: when Stop has left its select because the completion channel is closed,
\* no processEvents loop has its deferred CloseSend on the client's stream
\* still to run.
C27_LoopDoneBeforeSignal ==
  (L.op = "Stop" /\ L.via = "chan") =>
    \A i \in Loops : gor[i].pc = "closeSend" => gor[i].cs # stream

====
